---- MODULE Spec2Model ----
(***************************************************************************)
(* State-machine model of src/preprocessor.py:                             *)
(*   - tokenize: the noisy wordpiece tokenizer (lines 119-168), one step   *)
(*     per loop test / candidate evaluation;                               *)
(*   - generate_target_dist behind functools.lru_cache (lines 91-116).     *)
(* Characters are one-character strings, words and tokens are sequences    *)
(* of characters.  Random draws and the corruption probability are in      *)
(* hundredths (a draw d stands for random() = d/100).                      *)
(***************************************************************************)
EXTENDS Integers, Sequences, FiniteSets, TLC

VARIABLES
    text, vocab, max_input_chars_per_word,
    pc, words, chars, output_tokens, is_bad, start, end, sub_tokens, cur_substr,
    n_evals, n_hits, n_random, n_rejects, n_high, last_draw, mark, log,
    seeded, stream, first,
    kf_first, kf_last,
    bal,
    variant, NUM_EPOCHS, BATCH_SIZE, train_len, val_len, tr_pc, curr_epoch,
    current_tuple, iter, batch_idx_start, grad, steps, sel,
    pe_variant, data_len, pe_batch_size, pe_pc, pe_batch_idx_start, val_preds, pe_ret,
    cache, body_runs, returned, ret, n_calls,
    thr, results

(* the random source: "off" when it is not seeded; under a seed, "record" in the
   run that fixes the sequence of values and "replay" in the run that starts
   from the same seed *)
seedVars == <<seeded, stream, first>>

tokVars == <<seedVars, text, vocab, max_input_chars_per_word,
             pc, words, chars, output_tokens, is_bad, start, end, sub_tokens,
             cur_substr, n_evals, n_hits, n_random, n_rejects, n_high, last_draw, mark,
             log>>

distVars == <<cache, body_runs, returned, ret, n_calls>>

thrVars == <<thr, results>>

(* the results of the first and of the latest call of
   generate_train_kfolds_indices *)
kfVars == <<kf_first, kf_last>>

(* the result of the latest call of get_balanced_id_text_label_from_csv *)
balVars == <<bal>>

(* main_driver and train: the module's settings and the lengths of the two
   tuples, the locals of the two functions, the gradient the parameters hold
   (the batches that added to it since the last zero_grad), the optimizer
   steps made and the tuple each epoch trained on *)
trainVars == <<variant, NUM_EPOCHS, BATCH_SIZE, train_len, val_len, tr_pc, curr_epoch,
               current_tuple, iter, batch_idx_start, grad, steps, sel>>

(* predict_evaluate: which classifier it belongs to, len(data_tuple[-1]), its
   BATCH_SIZE, its position, batch_idx_start, val_preds and what the call
   ends with *)
predictVars == <<pe_variant, data_len, pe_batch_size, pe_pc, pe_batch_idx_start,
                 val_preds, pe_ret>>

otherVars == <<kfVars, balVars, trainVars, predictVars>>

(* what the tokenizer leaves alone, and what generate_target_dist called from
   one thread leaves alone *)
nonTok == <<distVars, thrVars, otherVars>>
nonDist == <<tokVars, thrVars, otherVars>>

nonKFold == <<tokVars, distVars, thrVars, balVars, trainVars, predictVars>>
nonBal == <<tokVars, distVars, thrVars, kfVars, trainVars, predictVars>>
nonTrain == <<tokVars, distVars, thrVars, kfVars, balVars, predictVars>>
nonPredict == <<tokVars, distVars, thrVars, kfVars, balVars, trainVars>>

vars == <<tokVars, distVars, thrVars, otherVars>>

----------------------------------------------------------------------------
(* Bounds of the model *)

MaxTextLen == 4
MaxSeededLen == 4
SmallMaxChars == 1
LargeMaxChars == 6
MaxBins == 4
MaxCalls == 2
NumThreads == 2
MaxThreadCalls == 3
MaxRows == 5
MaxCsvRows == 3
MaxSample == 5
MaxEpochs == 6
MaxBatchSize == 2
MaxTupleLen == 3
MaxDataLen == 6
MaxPredictBatch == 4

Threads == 1..NumThreads

(* random() > 0.1, in hundredths *)
CorruptPct == 10

----------------------------------------------------------------------------
(* Strings *)

Space == " "
Letters == {"a", "b", "#"}
Marker == <<"#", "#">>
unk_token == <<"[UNK]">>

SeqsUpTo(S, n) == UNION {[1..k -> S] : k \in 0..n}

Unable == <<"u", "n", "a", "b", "l", "e">>

Texts == SeqsUpTo(Letters \cup {Space}, MaxTextLen) \cup {Unable}

(* the vocabularies the tokenizer instance may carry *)
VocabPieces == { <<"a">>, <<"a", "b">>, Marker \o <<"a">>, Marker \o <<"b">>,
                 Marker \o <<"a", "b">> }
VocabChars == { <<"a">>, <<"b">>, <<"#">>, Marker \o <<"a">>, Marker \o <<"b">>,
                Marker \o <<"#">> }
VocabUnable1 == { <<"u", "n">>, Marker \o <<"a", "b", "l", "e">>, Unable }
VocabUnable2 == { <<"u", "n">>, Marker \o <<"a", "b", "l", "e">> }
Vocabs == { {}, VocabPieces, VocabChars, VocabUnable1, VocabUnable2 }

(* values random() can return, in hundredths: [0, 1) *)
Draws == {0, CorruptPct, CorruptPct + 1, 99}

----------------------------------------------------------------------------
(* whitespace_tokenize *)

RECURSIVE LStrip(_)
LStrip(t) == IF t # <<>> /\ Head(t) = Space THEN LStrip(Tail(t)) ELSE t

RECURSIVE RStrip(_)
RStrip(t) ==
    IF t # <<>> /\ t[Len(t)] = Space THEN RStrip(SubSeq(t, 1, Len(t) - 1)) ELSE t

Strip(t) == RStrip(LStrip(t))

RECURSIVE RunLen(_)
RunLen(t) == IF t = <<>> \/ Head(t) = Space THEN 0 ELSE 1 + RunLen(Tail(t))

RECURSIVE Split(_)
Split(t) ==
    IF t = <<>> THEN <<>>
    ELSE IF Head(t) = Space THEN Split(Tail(t))
    ELSE <<SubSeq(t, 1, RunLen(t))>> \o Split(SubSeq(t, RunLen(t) + 1, Len(t)))

(* text.split(" ") for text.split(): no trimming, and every single space
   separates, so that empty words appear *)
RECURSIVE whitespace_tokenize_SplitOnSpace(_)
whitespace_tokenize_SplitOnSpace(t) ==
    IF RunLen(t) = Len(t) THEN <<t>>
    ELSE <<SubSeq(t, 1, RunLen(t))>>
             \o whitespace_tokenize_SplitOnSpace(SubSeq(t, RunLen(t) + 2, Len(t)))

(* lines 128-134: text = text.strip(); if not text: return []; text.split() *)
whitespace_tokenize(t) == IF Strip(t) = <<>> THEN <<>> ELSE Split(Strip(t))

----------------------------------------------------------------------------
(* tokenize: helpers *)

(* the length test off by one *)
TooLong_OffByOne(cs, max) == Len(cs) > max + 1

TooLong(cs, max) == Len(cs) > max

(* the continuation marker forgotten *)
Candidate_NoMarker(cs, s, e) == SubSeq(cs, s + 1, e)

(* substr = "".join(chars[start:end]); if start > 0: substr = "##" + substr *)
Candidate(cs, s, e) ==
    IF s > 0 THEN Marker \o SubSeq(cs, s + 1, e) ELSE SubSeq(cs, s + 1, e)

(* last_draw when the step called random() not at all *)
NoDraw == -1

(* ">=" for ">" *)
DrawPasses_Geq(d) == d >= CorruptPct

(* random() > 0.1 *)
DrawPasses(d) == d > CorruptPct

(* random() called before the vocabulary test, for every candidate *)
CallsRandom_Always(hit) == TRUE

(* "A and B" evaluates B only if A is true: random() is called for a candidate
   only when it is in the vocabulary *)
CallsRandom(hit) == hit

(* the draw forgotten: every vocabulary hit accepted *)
Accepts_IgnoresDraw(hit, d) == hit

(* substr in self.vocab and random() > 0.1 *)
Accepts(hit, d) == hit /\ d # NoDraw /\ DrawPasses(d)

(* the scan started one short of the whole word *)
ScanFrom_Short(cs) == Len(cs) - 1

(* a second generator, seeded on its own *)
DrawSource_Unseeded(mode, strm, n) == Draws

(* random(): the next value of the generator; a run replayed from the same seed
   is given the values of the recorded run in their order *)
DrawSource(mode, strm, n) ==
    IF mode = "replay" /\ n < Len(strm) THEN {strm[n + 1]} ELSE Draws

(* line 147: end = len(chars) *)
ScanFrom(cs) == Len(cs)

(* n_high counts the draws that came out above 0.1 *)
Counters == [evals |-> n_evals, hits |-> n_hits, random |-> n_random,
             rejects |-> n_rejects, high |-> n_high]

(* what the log keeps of one word of the text once its loop iteration is through:
   the tokens it added to output_tokens, sub_tokens as they stood, and what the
   iteration evaluated and drew since the counters m taken when it began *)
WordRecord(word, m, kind, toks, subs) ==
    [word |-> word, kind |-> kind, toks |-> toks, subs |-> subs,
     evals |-> n_evals - m.evals, hits |-> n_hits - m.hits,
     random |-> n_random - m.random, rejects |-> n_rejects - m.rejects,
     high |-> n_high - m.high]

----------------------------------------------------------------------------
(* tokenize: the state after the call is entered *)

TokState(t, v, m, p) ==
    /\ text = t
    /\ vocab = v
    /\ max_input_chars_per_word = m
    /\ pc = p
    /\ words = <<>>
    /\ chars = <<>>
    /\ output_tokens = <<>>
    /\ is_bad = FALSE
    /\ start = 0
    /\ end = 0
    /\ sub_tokens = <<>>
    /\ cur_substr = {}
    /\ n_evals = 0
    /\ n_hits = 0
    /\ n_random = 0
    /\ n_rejects = 0
    /\ n_high = 0
    /\ last_draw = NoDraw
    /\ mark = [evals |-> 0, hits |-> 0, random |-> 0, rejects |-> 0, high |-> 0]
    /\ log = <<>>

EmptyMap == [k \in {} |-> 0]

(* no call of generate_target_dist yet: the cache of lru_cache is empty *)
DistEmpty ==
    /\ cache = EmptyMap
    /\ body_runs = EmptyMap
    /\ returned = EmptyMap
    /\ ret = [status |-> "none"]
    /\ n_calls = 0

SeedState(mode) ==
    /\ seeded = mode
    /\ stream = <<>>
    /\ first = [done |-> FALSE]

(* no thread is inside a call of generate_target_dist *)
ThrIdle ==
    /\ thr = [t \in Threads |-> [pc |-> "idle"]]
    /\ results = {}

KFoldIdle ==
    /\ kf_first = [status |-> "none"]
    /\ kf_last = [status |-> "none"]

BalancedIdle == bal = [status |-> "none"]

TrainIdle ==
    /\ variant = "baseline"
    /\ NUM_EPOCHS = 0
    /\ BATCH_SIZE = 1
    /\ train_len = 0
    /\ val_len = 0
    /\ tr_pc = "idle"
    /\ curr_epoch = 0
    /\ current_tuple = "train"
    /\ iter = 0
    /\ batch_idx_start = 0
    /\ grad = <<>>
    /\ steps = <<>>
    /\ sel = <<>>

PredictIdle ==
    /\ pe_variant = "baseline"
    /\ data_len = 0
    /\ pe_batch_size = 1
    /\ pe_pc = "idle"
    /\ pe_batch_idx_start = 0
    /\ val_preds = <<>>
    /\ pe_ret = [status |-> "none"]

OtherIdle == KFoldIdle /\ BalancedIdle /\ TrainIdle /\ PredictIdle

TokInit ==
    /\ \E t \in Texts, v \in Vocabs, m \in {SmallMaxChars, LargeMaxChars} :
           TokState(t, v, m, "entry")
    /\ SeedState("off")
    /\ DistEmpty
    /\ ThrIdle
    /\ OtherIdle

(* lines 136-137: output_tokens = []; the for loop over whitespace_tokenize(text) *)
Enter ==
    /\ pc = "entry"
    /\ words' = whitespace_tokenize(text)
    /\ output_tokens' = <<>>
    /\ pc' = "for"
    /\ UNCHANGED <<nonTok, seedVars, text, vocab, max_input_chars_per_word, chars, is_bad, start, end,
                   sub_tokens, cur_substr, n_evals, n_hits, n_random, n_rejects, n_high,
                   last_draw, mark, log>>

(* lines 137-141: a word longer than max_input_chars_per_word *)
Oversize ==
    /\ pc = "for"
    /\ words # <<>>
    /\ TooLong(Head(words), max_input_chars_per_word)
    /\ chars' = Head(words)
    /\ words' = Tail(words)
    /\ output_tokens' = Append(output_tokens, unk_token)
    /\ mark' = Counters
    /\ log' = Append(log, WordRecord(Head(words), Counters, "oversize",
                                      <<unk_token>>, <<>>))
    /\ last_draw' = NoDraw
    /\ pc' = "for"
    /\ UNCHANGED <<nonTok, seedVars, text, vocab, max_input_chars_per_word, is_bad, start, end,
                   sub_tokens, cur_substr, n_evals, n_hits, n_random, n_rejects, n_high>>

(* lines 137-145: a word that is scanned *)
BeginWord ==
    /\ pc = "for"
    /\ words # <<>>
    /\ ~TooLong(Head(words), max_input_chars_per_word)
    /\ chars' = Head(words)
    /\ words' = Tail(words)
    /\ is_bad' = FALSE
    /\ start' = 0
    /\ sub_tokens' = <<>>
    /\ mark' = Counters
    /\ last_draw' = NoDraw
    /\ pc' = "while"
    /\ UNCHANGED <<nonTok, seedVars, text, vocab, max_input_chars_per_word, output_tokens, end,
                   cur_substr, n_evals, n_hits, n_random, n_rejects, n_high, log>>

(* line 168: return output_tokens *)
Return ==
    /\ pc = "for"
    /\ words = <<>>
    /\ pc' = "done"
    /\ last_draw' = NoDraw
    /\ UNCHANGED <<nonTok, seedVars, text, vocab, max_input_chars_per_word, words, chars, output_tokens,
                   is_bad, start, end, sub_tokens, cur_substr, n_evals, n_hits,
                   n_random, n_rejects, n_high, mark, log>>

(* lines 146-148: the test of the outer while, and the reset before the inner one *)
While ==
    /\ pc = "while"
    /\ IF start < Len(chars)
       THEN /\ end' = ScanFrom(chars)
            /\ cur_substr' = {}
            /\ pc' = "inner"
       ELSE /\ pc' = "emit"
            /\ UNCHANGED <<end, cur_substr>>
    /\ last_draw' = NoDraw
    /\ UNCHANGED <<nonTok, seedVars, text, vocab, max_input_chars_per_word, words, chars, output_tokens,
                   is_bad, start, sub_tokens, n_evals, n_hits, n_random, n_rejects, n_high,
                   mark, log>>

(* the end of the candidate moved back by two characters *)
Shrink_ByTwo(e) == e - 2

(* line 157: end -= 1 *)
Shrink(e) == e - 1

(* lines 149-157: one candidate.  In "substr in self.vocab and random() > 0.1"
   the right operand, and so the call of random(), is evaluated only when the
   left one is true. *)
Evaluate ==
    /\ pc = "inner"
    /\ start < end
    /\ LET substr == Candidate(chars, start, end)
           hit == substr \in vocab
       IN  \E d \in (IF CallsRandom(hit) THEN DrawSource(seeded, stream, n_random)
                                            ELSE {NoDraw}) :
             /\ stream' = IF seeded = "record" /\ d # NoDraw THEN Append(stream, d)
                                                              ELSE stream
             /\ n_evals' = n_evals + 1
             /\ n_hits' = n_hits + (IF hit THEN 1 ELSE 0)
             /\ n_random' = n_random + (IF d = NoDraw THEN 0 ELSE 1)
             /\ n_high' = n_high + (IF d # NoDraw /\ d > CorruptPct THEN 1 ELSE 0)
             /\ last_draw' = d
             /\ IF Accepts(hit, d)
                THEN /\ cur_substr' = {substr}
                     /\ pc' = "after"
                     /\ UNCHANGED <<end, n_rejects>>
                ELSE /\ end' = Shrink(end)
                     /\ n_rejects' = n_rejects + (IF hit THEN 1 ELSE 0)
                     /\ UNCHANGED <<cur_substr, pc>>
    /\ UNCHANGED <<nonTok, seeded, first, text, vocab, max_input_chars_per_word, words, chars, output_tokens,
                   is_bad, start, sub_tokens, mark, log>>

(* line 149: the inner while ends with start = end *)
InnerExit ==
    /\ pc = "inner"
    /\ ~(start < end)
    /\ pc' = "after"
    /\ last_draw' = NoDraw
    /\ UNCHANGED <<nonTok, seedVars, text, vocab, max_input_chars_per_word, words, chars, output_tokens,
                   is_bad, start, end, sub_tokens, cur_substr, n_evals, n_hits,
                   n_random, n_rejects, n_high, mark, log>>

(* the cursor moved one character too far *)
NextStart_Skip(s, e) == e + 1

(* line 162: start = end *)
NextStart(s, e) == e

(* lines 158-162 *)
After ==
    /\ pc = "after"
    /\ IF cur_substr = {}
       THEN /\ is_bad' = TRUE
            /\ pc' = "emit"
            /\ UNCHANGED <<sub_tokens, start>>
       ELSE /\ sub_tokens' = Append(sub_tokens, CHOOSE s \in cur_substr : TRUE)
            /\ start' = NextStart(start, end)
            /\ pc' = "while"
            /\ UNCHANGED is_bad
    /\ last_draw' = NoDraw
    /\ UNCHANGED <<nonTok, seedVars, text, vocab, max_input_chars_per_word, words, chars, output_tokens,
                   end, cur_substr, n_evals, n_hits, n_random, n_rejects, n_high, mark, log>>

(* is_bad ignored: the partial sub_tokens are kept *)
WordTokens_Partial(bad, subs) == subs

(* a bad word dropped instead of replaced *)
WordTokens_Drop(bad, subs) == IF bad THEN <<>> ELSE subs

(* lines 164-167: what the word adds to output_tokens *)
WordTokens(bad, subs) == IF bad THEN <<unk_token>> ELSE subs

Emit ==
    /\ pc = "emit"
    /\ output_tokens' = output_tokens \o WordTokens(is_bad, sub_tokens)
    /\ log' = Append(log, WordRecord(chars, mark, IF is_bad THEN "bad" ELSE "ok",
                                      WordTokens(is_bad, sub_tokens), sub_tokens))
    /\ pc' = "for"
    /\ last_draw' = NoDraw
    /\ UNCHANGED <<nonTok, seedVars, text, vocab, max_input_chars_per_word, words, chars, is_bad, start,
                   end, sub_tokens, cur_substr, n_evals, n_hits, n_random, n_rejects, n_high,
                   mark>>

TokNext ==
    \/ Enter
    \/ Oversize
    \/ BeginWord
    \/ While
    \/ Evaluate
    \/ InnerExit
    \/ After
    \/ Emit
    \/ Return

SpecTok == TokInit /\ [][TokNext]_vars

(* tokenize runs on one thread with nothing to wait for: a step that can be
   taken is taken *)
SpecTokFair == SpecTok /\ WF_vars(TokNext)

(* the same call made again with the generator seeded as before: the first
   run's result is kept, every local starts afresh *)
Rerun ==
    /\ pc = "done"
    /\ seeded = "record"
    /\ first' = [done |-> TRUE, output_tokens |-> output_tokens, n_random |-> n_random]
    /\ seeded' = "replay"
    /\ pc' = "entry"
    /\ words' = <<>>
    /\ chars' = <<>>
    /\ output_tokens' = <<>>
    /\ is_bad' = FALSE
    /\ start' = 0
    /\ end' = 0
    /\ sub_tokens' = <<>>
    /\ cur_substr' = {}
    /\ n_evals' = 0
    /\ n_hits' = 0
    /\ n_random' = 0
    /\ n_rejects' = 0
    /\ n_high' = 0
    /\ last_draw' = NoDraw
    /\ mark' = [evals |-> 0, hits |-> 0, random |-> 0, rejects |-> 0, high |-> 0]
    /\ log' = <<>>
    /\ UNCHANGED <<nonTok, stream, text, vocab, max_input_chars_per_word>>

SeededTexts == {t \in Texts : Len(t) <= MaxSeededLen}

SeededInit ==
    /\ \E t \in SeededTexts, v \in Vocabs \ {{}}, m \in {SmallMaxChars, LargeMaxChars} :
           TokState(t, v, m, "entry")
    /\ SeedState("record")
    /\ DistEmpty
    /\ ThrIdle
    /\ OtherIdle

SeededNext ==
    \/ TokNext
    \/ Rerun

SpecTokSeeded == SeededInit /\ [][SeededNext]_vars


----------------------------------------------------------------------------
(* Exact rational arithmetic for generate_target_dist: a number is [n, d] in
   lowest terms with d > 0 *)

Abs(i) == IF i < 0 THEN -i ELSE i

RECURSIVE GCD(_, _)
GCD(x, y) == IF y = 0 THEN x ELSE GCD(y, x % y)

Rat(n, d) ==
    LET g == GCD(Abs(n), Abs(d))
        sg == IF d < 0 THEN -1 ELSE 1
    IN  [n |-> (sg * n) \div g, d |-> (sg * d) \div g]

RInt(i) == [n |-> i, d |-> 1]
RAdd(x, y) == Rat(x.n * y.d + y.n * x.d, x.d * y.d)
RSub(x, y) == Rat(x.n * y.d - y.n * x.d, x.d * y.d)
RMul(x, y) == Rat(x.n * y.n, x.d * y.d)
RDiv(x, y) == Rat(x.n * y.d, x.d * y.n)
RLess(x, y) == x.n * y.d < y.n * x.d
RLeq(x, y) == x.n * y.d <= y.n * x.d
Half == Rat(1, 2)

----------------------------------------------------------------------------
(* generate_target_dist *)

Put(f, k, v) == [x \in DOMAIN f \cup {k} |-> IF x = k THEN v ELSE f[x]]

(* the arguments of the calls: means 0.5 and 1.5, and (low, high) with
   low < high, low = high and low > high *)
Means == {Rat(1, 2), Rat(3, 2)}
Edges == {<<0, 1>>, <<1, 3>>, <<1, 1>>, <<1, 0>>}
Keys == {[mean |-> m, num_bins |-> n, low |-> e[1], high |-> e[2]] :
            m \in Means, n \in -1..MaxBins, e \in Edges}

ScenarioKey == [mean |-> Rat(1, 2), num_bins |-> 4, low |-> 0, high |-> 1]

(* line 101: radius = 0.5 * (high - low) / num_bins, for num_bins # 0 *)
Radius(k) == RDiv(RMul(Half, RInt(k.high - k.low)), RInt(k.num_bins))

(* the left edge of the bin for its centre *)
Support_NoRadius(k, x) == RAdd(RMul(RInt(x), RMul(RInt(2), Radius(k))), RInt(k.low))

(* line 114: x * (2 * radius) + radius + low *)
Support(k, x) ==
    RAdd(RAdd(RMul(RInt(x), RMul(RInt(2), Radius(k))), Radius(k)), RInt(k.low))

(* line 114: one support for each x in range(num_bins) *)
Supports(k) ==
    [i \in 1..(IF k.num_bins > 0 THEN k.num_bins ELSE 0) |-> Support(k, i - 1)]

(* nan, in the shape of a rational *)
NaN == [n |-> 0, d |-> 0]

RAbs(x) == [n |-> Abs(x.n), d |-> x.d]

(* the standard normal distribution function enters the result only as a
   strictly increasing function onto (0, 1), symmetric about 0; its irrational
   values are stood in for by the rational function (1 + z / (1 + |z|)) / 2,
   which has these properties *)
Phi(z) == RMul(Half, RAdd(RInt(1), RDiv(z, RAdd(RInt(1), RAbs(z)))))

(* truncnorm.cdf at the standardised point z = (x - loc) / scale for the
   truncation bounds a < b: 0 below a, 1 above b, and between them
   (Phi(z) - Phi(a)) / (Phi(b) - Phi(a)) *)
truncnorm_cdf(z, a, b) ==
    IF RLess(z, a) THEN RInt(0)
    ELSE IF RLess(b, z) THEN RInt(1)
    ELSE RDiv(RSub(Phi(z), Phi(a)), RSub(Phi(b), Phi(a)))

(* the two values of truncnorm.cdf subtracted the other way round *)
trunc_norm_prob_Swapped(k, center) ==
    LET radius == Radius(k)
        a == RDiv(RSub(RInt(k.low), k.mean), radius)
        b == RDiv(RSub(RInt(k.high), k.mean), radius)
        lo == RDiv(RSub(RSub(center, radius), k.mean), radius)
        hi == RDiv(RSub(RAdd(center, radius), k.mean), radius)
        nan == ~RLess(RInt(0), radius)
    IN  [nan |-> nan, a |-> a, b |-> b, lo |-> lo, hi |-> hi,
         p |-> IF nan THEN NaN
               ELSE RSub(truncnorm_cdf(lo, a, b), truncnorm_cdf(hi, a, b))]

(* low and high passed as the truncation bounds as they are *)
trunc_norm_prob_RawBounds(k, center) ==
    LET radius == Radius(k)
        a == RInt(k.low)
        b == RInt(k.high)
        lo == RDiv(RSub(RSub(center, radius), k.mean), radius)
        hi == RDiv(RSub(RAdd(center, radius), k.mean), radius)
        nan == ~RLess(RInt(0), radius)
    IN  [nan |-> nan, a |-> a, b |-> b, lo |-> lo, hi |-> hi,
         p |-> IF nan THEN NaN
               ELSE RSub(truncnorm_cdf(hi, a, b), truncnorm_cdf(lo, a, b))]

(* lines 103-112: the difference of truncnorm.cdf at center + radius and at
   center - radius: the value p, with the arguments the two calls are made
   with, the truncation bounds a and b and the standardised edges
   (x - loc) / scale. scipy returns nan for a scale that is not positive. *)
trunc_norm_prob(k, center) ==
    LET radius == Radius(k)
        a == RDiv(RSub(RInt(k.low), k.mean), radius)
        b == RDiv(RSub(RInt(k.high), k.mean), radius)
        lo == RDiv(RSub(RSub(center, radius), k.mean), radius)
        hi == RDiv(RSub(RAdd(center, radius), k.mean), radius)
        nan == ~RLess(RInt(0), radius)
    IN  [nan |-> nan, a |-> a, b |-> b, lo |-> lo, hi |-> hi,
         p |-> IF nan THEN NaN
               ELSE RSub(truncnorm_cdf(hi, a, b), truncnorm_cdf(lo, a, b))]

(* arguments rejected the way a validating implementation would *)
BodyRaises_Validating(k) == k.num_bins <= 0 \/ k.low >= k.high

(* Python raises ZeroDivisionError at line 101 when num_bins = 0, and at line
   106 when radius = 0 and there is a support to compute a probability for *)
BodyRaises(k) ==
    \/ k.num_bins = 0
    \/ (k.num_bins > 0 /\ Radius(k).n = 0)

(* lines 101-116: what the body returns when it does not raise *)
Body(k) ==
    [supports |-> Supports(k),
     probs |-> [i \in DOMAIN Supports(k) |-> trunc_norm_prob(k, Supports(k)[i])]]

(* a store that keeps nothing *)
Store_Never(c, k, v) == c

(* lru_cache(maxsize=None): a result is stored under its key and never evicted *)
Store(c, k, v) == Put(c, k, v)

RunsOf(k) == IF k \in DOMAIN body_runs THEN body_runs[k] ELSE 0
ReturnedOf(k) == IF k \in DOMAIN returned THEN returned[k] ELSE {}

TokIdle == TokState(<<>>, {}, LargeMaxChars, "idle") /\ SeedState("off")

(* a call whose key is in the cache: the cached object is returned, the body
   does not run *)
CallHit ==
    /\ n_calls < MaxCalls
    /\ \E k \in Keys :
         /\ k \in DOMAIN cache
         /\ ret' = [status |-> "ok", key |-> k, hit |-> TRUE, obj |-> cache[k].obj,
                    value |-> cache[k].value]
         /\ returned' = Put(returned, k, ReturnedOf(k) \cup {cache[k].obj})
    /\ n_calls' = n_calls + 1
    /\ UNCHANGED <<nonDist, cache, body_runs>>

(* a call whose key is not in the cache and whose body returns: the body makes
   a new object, which is stored and returned *)
CallMiss ==
    /\ n_calls < MaxCalls
    /\ \E k \in Keys :
         /\ k \notin DOMAIN cache
         /\ ~BodyRaises(k)
         /\ LET new == [obj |-> <<k, RunsOf(k) + 1>>, value |-> Body(k)] IN
            /\ body_runs' = Put(body_runs, k, RunsOf(k) + 1)
            /\ cache' = Store(cache, k, new)
            /\ ret' = [status |-> "ok", key |-> k, hit |-> FALSE, obj |-> new.obj,
                       value |-> new.value]
            /\ returned' = Put(returned, k, ReturnedOf(k) \cup {new.obj})
    /\ n_calls' = n_calls + 1
    /\ UNCHANGED nonDist

(* a call whose body raises: the exception goes to the caller and lru_cache
   stores nothing *)
CallRaise ==
    /\ n_calls < MaxCalls
    /\ \E k \in Keys :
         /\ k \notin DOMAIN cache
         /\ BodyRaises(k)
         /\ body_runs' = Put(body_runs, k, RunsOf(k) + 1)
         /\ ret' = [status |-> "ZeroDivisionError", key |-> k]
    /\ n_calls' = n_calls + 1
    /\ UNCHANGED <<nonDist, cache, returned>>

DistInit == TokIdle /\ DistEmpty /\ ThrIdle /\ OtherIdle

DistNext ==
    \/ CallHit
    \/ CallMiss
    \/ CallRaise

SpecDist == DistInit /\ [][DistNext]_vars

----------------------------------------------------------------------------
(* generate_target_dist called from several threads.  The wrapper of
   lru_cache(maxsize=None) looks the key up in its dict, calls the function on
   a miss with no lock held, and then sets the dict item; the lookup and the
   set are each atomic, and the body works on locals only. *)

ZeroBinsKey == [mean |-> Rat(1, 2), num_bins |-> 0, low |-> 0, high |-> 1]
OutsideKey == [mean |-> Rat(3, 2), num_bins |-> 2, low |-> 0, high |-> 1]
ThreadKeys == {ScenarioKey, OutsideKey, ZeroBinsKey}

(* the dict rebuilt from the one item: the other entries lost *)
SetItem_Clobber(c, k, v) == [x \in {k} |-> v]

(* cache[key] = result *)
SetItem(c, k, v) == Store(c, k, v)

(* the lookup finds the key: the cached object is returned *)
T_Hit(t) ==
    /\ thr[t].pc = "idle"
    /\ n_calls < MaxThreadCalls
    /\ \E k \in ThreadKeys :
         /\ k \in DOMAIN cache
         /\ results' = results \cup {[key |-> k, status |-> "ok", obj |-> cache[k].obj,
                                      value |-> cache[k].value]}
    /\ n_calls' = n_calls + 1
    /\ UNCHANGED <<tokVars, otherVars, cache, body_runs, returned, ret, thr>>

(* the lookup misses: the thread goes on to call the function *)
T_Miss(t) ==
    /\ thr[t].pc = "idle"
    /\ n_calls < MaxThreadCalls
    /\ \E k \in ThreadKeys :
         /\ k \notin DOMAIN cache
         /\ thr' = [thr EXCEPT ![t] = [pc |-> "call", key |-> k]]
    /\ n_calls' = n_calls + 1
    /\ UNCHANGED <<tokVars, otherVars, cache, body_runs, returned, ret, results>>

(* the body runs and returns *)
T_Body(t) ==
    /\ thr[t].pc = "call"
    /\ ~BodyRaises(thr[t].key)
    /\ LET k == thr[t].key IN
       /\ body_runs' = Put(body_runs, k, RunsOf(k) + 1)
       /\ thr' = [thr EXCEPT ![t] = [pc |-> "set", key |-> k,
                                     new |-> [obj |-> <<k, RunsOf(k) + 1>>,
                                              value |-> Body(k)]]]
    /\ UNCHANGED <<tokVars, otherVars, cache, returned, ret, n_calls, results>>

(* the body runs and raises: nothing is stored *)
T_BodyRaises(t) ==
    /\ thr[t].pc = "call"
    /\ BodyRaises(thr[t].key)
    /\ LET k == thr[t].key IN
       /\ body_runs' = Put(body_runs, k, RunsOf(k) + 1)
       /\ results' = results \cup {[key |-> k, status |-> "ZeroDivisionError"]}
    /\ thr' = [thr EXCEPT ![t] = [pc |-> "idle"]]
    /\ UNCHANGED <<tokVars, otherVars, cache, returned, ret, n_calls>>

(* the result is stored under the key, replacing what another thread stored
   meanwhile, and returned *)
T_Set(t) ==
    /\ thr[t].pc = "set"
    /\ cache' = SetItem(cache, thr[t].key, thr[t].new)
    /\ results' = results \cup {[key |-> thr[t].key, status |-> "ok",
                                 obj |-> thr[t].new.obj, value |-> thr[t].new.value]}
    /\ thr' = [thr EXCEPT ![t] = [pc |-> "idle"]]
    /\ UNCHANGED <<tokVars, otherVars, body_runs, returned, ret, n_calls>>

ThreadsNext ==
    \E t \in Threads :
        \/ T_Hit(t)
        \/ T_Miss(t)
        \/ T_Body(t)
        \/ T_BodyRaises(t)
        \/ T_Set(t)

SpecDistThreads == DistInit /\ [][ThreadsNext]_vars

----------------------------------------------------------------------------
(* generate_train_kfolds_indices *)

NUM_FOLDS == 4

(* len(input_df): one length below NUM_FOLDS, for which KFold.split raises *)
Lengths == (NUM_FOLDS - 1)..MaxRows

(* KFold(shuffle=True) with no random_state shuffles range(n) with numpy's
   global generator, which nothing seeds: any order can come out *)
Shuffles ==
    [n \in Lengths |->
        {f \in [1..n -> 0..(n - 1)] : \A i, j \in 1..n : f[i] = f[j] => i = j}]

RECURSIVE Ascending(_)
Ascending(S) ==
    IF S = {} THEN <<>>
    ELSE LET m == CHOOSE x \in S : \A y \in S : x <= y
         IN  <<m>> \o Ascending(S \ {m})

(* the first n % NUM_FOLDS folds have n // NUM_FOLDS + 1 elements, the others
   n // NUM_FOLDS: where fold i (from 0) starts in the shuffled order *)
FoldStart(n, i) ==
    i * (n \div NUM_FOLDS) + (IF i < n % NUM_FOLDS THEN i ELSE n % NUM_FOLDS)

(* lines 20-21: the (training index, validation index) pairs, each index array
   in ascending order *)
KFold_split(n, order) ==
    [i \in 1..NUM_FOLDS |->
        LET test == {order[j] : j \in (FoldStart(n, i - 1) + 1)..FoldStart(n, i)}
        IN  <<Ascending((0..(n - 1)) \ test), Ascending(test)>>]

(* what the split of n rows can return *)
KFoldResults == [n \in Lengths |-> {KFold_split(n, order) : order \in Shuffles[n]}]

KFoldReturn(r) ==
    IF kf_first.status = "none"
        THEN kf_first' = r /\ UNCHANGED kf_last
        ELSE kf_last' = r /\ UNCHANGED kf_first

(* lines 14-21 for len(input_df) >= NUM_FOLDS *)
KFoldCall ==
    /\ \E n \in Lengths :
         /\ n >= NUM_FOLDS
         /\ \E folds \in KFoldResults[n] :
                KFoldReturn([status |-> "ok", n |-> n, folds |-> folds])
    /\ UNCHANGED nonKFold

(* KFold.split raises ValueError for fewer samples than splits *)
KFoldRaise ==
    /\ \E n \in Lengths :
         /\ n < NUM_FOLDS
         /\ KFoldReturn([status |-> "ValueError", n |-> n])
    /\ UNCHANGED nonKFold

KFoldInit == TokIdle /\ DistEmpty /\ ThrIdle /\ OtherIdle

KFoldNext ==
    \/ KFoldCall
    \/ KFoldRaise

SpecKFold == KFoldInit /\ [][KFoldNext]_vars

----------------------------------------------------------------------------
(* get_balanced_id_text_label_from_csv *)

(* the csv: the toxic column of its rows, a row being known by its position *)
Csvs == SeqsUpTo({0, 1}, MaxCsvRows)

RowsWith(csv, label) == {i \in DOMAIN csv : csv[i] = label}

(* df.sample(n=n, replace=True): n rows of the frame, each drawn from all of
   them; no such sample of n > 0 rows exists when the frame is empty *)
Samples(rows, n) == [1..n -> rows]

(* lines 70-71: n = sample // 2 *)
SampleSize(sample) == sample \div 2

(* lines 68-77 with sample given and both draws possible *)
BalancedSample ==
    /\ \E csv \in Csvs, sample \in 0..MaxSample :
         \E pos \in Samples(RowsWith(csv, 1), SampleSize(sample)),
            neg \in Samples(RowsWith(csv, 0), SampleSize(sample)) :
             bal' = [status |-> "ok", csv |-> csv, sampled |-> TRUE, sample |-> sample,
                     rows |-> pos \o neg]
    /\ UNCHANGED nonBal

(* numpy's choice raises ValueError for a sample of n > 0 rows of an empty
   frame *)
BalancedRaise ==
    /\ \E csv \in Csvs, sample \in 0..MaxSample :
         /\ SampleSize(sample) > 0
         /\ RowsWith(csv, 1) = {} \/ RowsWith(csv, 0) = {}
         /\ bal' = [status |-> "ValueError", csv |-> csv, sampled |-> TRUE,
                    sample |-> sample]
    /\ UNCHANGED nonBal

(* sample=None: every row of the csv, in order *)
BalancedAll ==
    /\ \E csv \in Csvs :
         bal' = [status |-> "ok", csv |-> csv, sampled |-> FALSE, sample |-> 0,
                 rows |-> [i \in DOMAIN csv |-> i]]
    /\ UNCHANGED nonBal

BalancedInit == TokIdle /\ DistEmpty /\ ThrIdle /\ OtherIdle

BalancedNext ==
    \/ BalancedSample
    \/ BalancedRaise
    \/ BalancedAll

SpecBalanced == BalancedInit /\ [][BalancedNext]_vars

----------------------------------------------------------------------------
(* classifier_baseline and classifier_dual_model: main_driver and train *)

Variants == {"baseline", "dual"}

(* classifier_baseline.py line 42 and classifier_dual_model.py line 36 *)
ACCUM_FOR == [v \in Variants |-> IF v = "baseline" THEN 2 ELSE 1]

(* len(all_labels) of the tuple an epoch trains on *)
LenOf(tuple) == IF tuple = "train" THEN train_len ELSE val_len

(* the test of classifier_dual_model read as a choice made anew every epoch *)
NextTuple_PerEpoch(v, e, n, cur) ==
    IF v = "baseline"
        THEN (IF e >= n \div 2 THEN "val" ELSE cur)
        ELSE (IF e = n \div 2 THEN "val" ELSE "train")

(* classifier_baseline.py lines 162-163: if curr_epoch >= NUM_EPOCHS // 2;
   classifier_dual_model.py lines 153-154: if curr_epoch == NUM_EPOCHS // 2;
   current_tuple = val_tuple, and otherwise current_tuple stays as it is *)
NextTuple(v, e, n, cur) ==
    IF v = "baseline"
        THEN (IF e >= n \div 2 THEN "val" ELSE cur)
        ELSE (IF e = n \div 2 THEN "val" ELSE cur)

TrainState(v, n, b, tl, vl, p) ==
    /\ variant = v
    /\ NUM_EPOCHS = n
    /\ BATCH_SIZE = b
    /\ train_len = tl
    /\ val_len = vl
    /\ tr_pc = p
    /\ curr_epoch = 0
    /\ current_tuple = "train"
    /\ iter = 0
    /\ batch_idx_start = 0
    /\ grad = <<>>
    /\ steps = <<>>
    /\ sel = <<>>

(* main_driver up to its loop: the optimizer is new, no gradient is held, and
   current_tuple = train_tuple *)
TrainInit ==
    /\ \E v \in Variants, n \in 0..MaxEpochs, b \in 1..MaxBatchSize,
          tl \in 0..MaxTupleLen, vl \in 0..MaxTupleLen :
           TrainState(v, n, b, tl, vl, "for")
    /\ TokIdle
    /\ DistEmpty
    /\ ThrIdle
    /\ KFoldIdle
    /\ BalancedIdle
    /\ PredictIdle

(* main_driver: the next epoch chooses its tuple and calls train, which sets
   iter = 0 and holds on to whatever gradient the parameters carry *)
EpochBegin ==
    /\ tr_pc = "for"
    /\ curr_epoch < NUM_EPOCHS
    /\ current_tuple' = NextTuple(variant, curr_epoch, NUM_EPOCHS, current_tuple)
    /\ sel' = Append(sel, current_tuple')
    /\ iter' = 0
    /\ batch_idx_start' = 0
    /\ tr_pc' = "batch"
    /\ UNCHANGED <<nonTrain, variant, NUM_EPOCHS, BATCH_SIZE, train_len, val_len,
                   curr_epoch, grad, steps>>

(* train: a batch whose loss.backward() adds to the gradient and whose iter is
   no multiple of ACCUM_FOR *)
BatchAccumulate ==
    /\ tr_pc = "batch"
    /\ batch_idx_start < LenOf(current_tuple)
    /\ (iter + 1) % ACCUM_FOR[variant] # 0
    /\ iter' = iter + 1
    /\ grad' = Append(grad, [epoch |-> curr_epoch, iter |-> iter + 1])
    /\ batch_idx_start' = batch_idx_start + BATCH_SIZE
    /\ UNCHANGED <<nonTrain, variant, NUM_EPOCHS, BATCH_SIZE, train_len, val_len,
                   tr_pc, curr_epoch, current_tuple, steps, sel>>

(* train: a batch after whose loss.backward() iter % ACCUM_FOR == 0: opt.step()
   applies the gradient held and opt.zero_grad() clears it *)
BatchStep ==
    /\ tr_pc = "batch"
    /\ batch_idx_start < LenOf(current_tuple)
    /\ (iter + 1) % ACCUM_FOR[variant] = 0
    /\ iter' = iter + 1
    /\ steps' = Append(steps,
                       [epoch |-> curr_epoch,
                        grads |-> Append(grad, [epoch |-> curr_epoch, iter |-> iter + 1])])
    /\ grad' = <<>>
    /\ batch_idx_start' = batch_idx_start + BATCH_SIZE
    /\ UNCHANGED <<nonTrain, variant, NUM_EPOCHS, BATCH_SIZE, train_len, val_len,
                   tr_pc, curr_epoch, current_tuple, sel>>

(* train returns when the range is used up; predict_evaluate runs under
   torch.no_grad() and the loop goes to the next epoch *)
EpochEnd ==
    /\ tr_pc = "batch"
    /\ batch_idx_start >= LenOf(current_tuple)
    /\ curr_epoch' = curr_epoch + 1
    /\ tr_pc' = "for"
    /\ UNCHANGED <<nonTrain, variant, NUM_EPOCHS, BATCH_SIZE, train_len, val_len,
                   current_tuple, iter, batch_idx_start, grad, steps, sel>>

(* the loop over range(NUM_EPOCHS) ends *)
DriverDone ==
    /\ tr_pc = "for"
    /\ curr_epoch >= NUM_EPOCHS
    /\ tr_pc' = "done"
    /\ UNCHANGED <<nonTrain, variant, NUM_EPOCHS, BATCH_SIZE, train_len, val_len,
                   curr_epoch, current_tuple, iter, batch_idx_start, grad, steps, sel>>

TrainNext ==
    \/ EpochBegin
    \/ BatchAccumulate
    \/ BatchStep
    \/ EpochEnd
    \/ DriverDone

SpecTrain == TrainInit /\ [][TrainNext]_vars

----------------------------------------------------------------------------
(* classifier_baseline and classifier_dual_model: predict_evaluate *)

(* a numpy array of predictions: its number of dimensions, and the rows of the
   data whose predictions it holds, in order *)
Array(ndim, rows) == [ndim |-> ndim, rows |-> rows]

(* batch_preds has shape (k, 1) for a batch of k rows (NUM_OUTPUTS = 1);
   squeeze() drops every axis of length 1: the result has shape (k,) for
   k > 1 and is zero-dimensional for k = 1 *)
Squeeze(rows) == Array(IF Len(rows) = 1 THEN 0 ELSE 1, rows)

(* data_tuple[0][batch_idx_start:batch_idx_end] with
   batch_idx_end = min(batch_idx_start + BATCH_SIZE, len(data_tuple[-1])) *)
BatchRows(s, b, n) ==
    LET e == IF s + b < n THEN s + b ELSE n
    IN  [i \in 1..(e - s) |-> s + i - 1]

(* np.concatenate raises ValueError for an empty list and for a list holding
   a zero-dimensional array *)
ConcatenateRaises(arrays) ==
    \/ arrays = <<>>
    \/ \E i \in DOMAIN arrays : arrays[i].ndim = 0

RECURSIVE Concatenate(_)
Concatenate(arrays) ==
    IF arrays = <<>> THEN <<>> ELSE Head(arrays).rows \o Concatenate(Tail(arrays))

PredictState(v, n, b, p) ==
    /\ pe_variant = v
    /\ data_len = n
    /\ pe_batch_size = b
    /\ pe_pc = p
    /\ pe_batch_idx_start = 0
    /\ val_preds = <<>>
    /\ pe_ret = [status |-> "none"]

PredictInit ==
    /\ \E v \in Variants, n \in 0..MaxDataLen, b \in 1..MaxPredictBatch :
           PredictState(v, n, b, "for")
    /\ TokIdle
    /\ DistEmpty
    /\ ThrIdle
    /\ KFoldIdle
    /\ BalancedIdle
    /\ TrainIdle

(* one batch of the loop over range(0, len(data_tuple[-1]), BATCH_SIZE) *)
PredictBatch ==
    /\ pe_pc = "for"
    /\ pe_batch_idx_start < data_len
    /\ val_preds' = Append(val_preds,
                           Squeeze(BatchRows(pe_batch_idx_start, pe_batch_size, data_len)))
    /\ pe_batch_idx_start' = pe_batch_idx_start + pe_batch_size
    /\ UNCHANGED <<nonPredict, pe_variant, data_len, pe_batch_size, pe_pc, pe_ret>>

(* the loop is through and np.concatenate(val_preds) returns *)
PredictConcatenate ==
    /\ pe_pc = "for"
    /\ pe_batch_idx_start >= data_len
    /\ ~ConcatenateRaises(val_preds)
    /\ pe_ret' = [status |-> "ok", preds |-> Concatenate(val_preds)]
    /\ pe_pc' = "done"
    /\ UNCHANGED <<nonPredict, pe_variant, data_len, pe_batch_size, pe_batch_idx_start,
                   val_preds>>

(* the loop is through and np.concatenate(val_preds) raises *)
PredictRaise ==
    /\ pe_pc = "for"
    /\ pe_batch_idx_start >= data_len
    /\ ConcatenateRaises(val_preds)
    /\ pe_ret' = [status |-> "ValueError"]
    /\ pe_pc' = "done"
    /\ UNCHANGED <<nonPredict, pe_variant, data_len, pe_batch_size, pe_batch_idx_start,
                   val_preds>>

PredictNext ==
    \/ PredictBatch
    \/ PredictConcatenate
    \/ PredictRaise

SpecPredict == PredictInit /\ [][PredictNext]_vars

----------------------------------------------------------------------------
(* Operators the properties are stated with *)

Range(f) == {f[i] : i \in DOMAIN f}

RECURSIVE Flatten(_)
Flatten(ss) == IF ss = <<>> THEN <<>> ELSE Head(ss) \o Flatten(Tail(ss))

(* the tokens of one word put back together: the first token as it is, every
   later token without the two characters of its continuation marker *)
Detokenize(toks) ==
    Flatten([i \in 1..Len(toks) |->
                IF i = 1 THEN toks[i] ELSE SubSeq(toks[i], 3, Len(toks[i]))])

MaxOf(S) == CHOOSE x \in S : \A y \in S : y <= x

(* longest-match-first segmentation of w from cursor s over vocabulary V *)
RECURSIVE Greedy(_, _, _)
Greedy(w, s, V) ==
    IF s >= Len(w) THEN [ok |-> TRUE, toks |-> <<>>]
    ELSE LET es == {e \in (s + 1)..Len(w) :
                      (IF s > 0 THEN Marker ELSE <<>>) \o SubSeq(w, s + 1, e) \in V}
         IN  IF es = {} THEN [ok |-> FALSE, toks |-> <<>>]
             ELSE LET e == MaxOf(es)
                      rest == Greedy(w, e, V)
                  IN  [ok |-> rest.ok,
                       toks |-> <<(IF s > 0 THEN Marker ELSE <<>>) \o SubSeq(w, s + 1, e)>>
                                \o rest.toks]

GreedyTokens(w, V) ==
    IF Greedy(w, 0, V).ok THEN Greedy(w, 0, V).toks ELSE <<unk_token>>

Scanned(i) == log[i].kind # "oversize"

----------------------------------------------------------------------------
(* C1: with no vocabulary hit rejected, a word within max_input_chars_per_word
   whose scan succeeds yields tokens that give the word back when concatenated
   with the continuation markers stripped. *)
C1_RoundTrip ==
    \A i \in DOMAIN log :
        (log[i].kind = "ok" /\ log[i].rejects = 0)
            => Detokenize(log[i].toks) = log[i].word

C1_Witness ==
    \E i \in DOMAIN log :
        /\ log[i].kind = "ok" /\ log[i].rejects = 0
        /\ Len(log[i].toks) >= 2
        /\ log[i].word[Len(log[i].word)] = "#"

(* C2 as stated: one call of random() for every candidate evaluated. *)
C2_DrawPerCandidate ==
    \A i \in DOMAIN log : log[i].random = log[i].evals

(* C2 amended: one call of random() for every evaluated candidate that is in the
   vocabulary, accepted or rejected, and none for a candidate that is absent. *)
C2_DrawPerVocabHit ==
    /\ n_random = n_hits
    /\ \A i \in DOMAIN log : log[i].random = log[i].hits
    /\ (pc = "inner" /\ last_draw = NoDraw /\ end < Len(chars))
           => Candidate(chars, start, end + 1) \notin vocab

C2_Witness ==
    \E i \in DOMAIN log :
        /\ log[i].hits > 0 /\ log[i].rejects > 0
        /\ log[i].evals > log[i].hits
        /\ log[i].random = log[i].hits

(* C3: a candidate is accepted only if it is in the vocabulary and its draw
   exceeds 0.1; otherwise the scan goes on with the next shorter candidate at the
   same cursor. *)
C3_AcceptOnlyOnHitAndDraw ==
    [][(pc = "inner" /\ start < end) =>
         LET c == Candidate(chars, start, end)
             passed == c \in vocab /\ last_draw' > CorruptPct
         IN  /\ (pc' = "after" /\ cur_substr' = {c}) <=> passed
             /\ ~passed => /\ end' = end - 1
                           /\ start' = start
                           /\ pc' = "inner"
                           /\ cur_substr' = {}]_vars

C3_Witness ==
    /\ pc = "inner"
    /\ last_draw = CorruptPct
    /\ cur_substr = {}
    /\ Candidate(chars, start, end + 1) \in vocab

(* C4: a word whose scan runs out of candidates at some cursor contributes
   exactly [unk_token], and none of the sub-tokens accepted before. *)
C4_BadWordIsUnk ==
    /\ is_bad => (start = end /\ cur_substr = {})
    /\ output_tokens = Flatten([i \in DOMAIN log |-> log[i].toks])
    /\ \A i \in DOMAIN log : log[i].kind = "bad" => log[i].toks = <<unk_token>>

C4_Witness ==
    \E i \in DOMAIN log :
        /\ log[i].kind = "bad"
        /\ log[i].subs # <<>>
        /\ log[i].toks = <<unk_token>>

(* C5: a word longer than max_input_chars_per_word contributes exactly
   [unk_token], and no candidate is evaluated and no draw made for it. *)
C5_OversizeIsUnk ==
    \A i \in DOMAIN log :
        Len(log[i].word) > max_input_chars_per_word
            => /\ log[i].toks = <<unk_token>>
               /\ log[i].evals = 0
               /\ log[i].random = 0

C5_Witness ==
    \E i \in DOMAIN log :
        /\ Len(log[i].word) > max_input_chars_per_word
        /\ SubSeq(log[i].word, 1, 1) \in vocab
        /\ log[i].toks = <<unk_token>>

(* C6: with no hit rejected the tokens are the longest-match-first segmentation:
   "unable" gives [unable] over {un, ##able, unable} and [un, ##able] over
   {un, ##able}. *)
C6_LongestMatch ==
    /\ \A i \in DOMAIN log :
           (Scanned(i) /\ log[i].rejects = 0)
               => log[i].toks = GreedyTokens(log[i].word, vocab)
    /\ \A i \in DOMAIN log :
           (Scanned(i) /\ log[i].rejects = 0 /\ log[i].word = Unable)
               => /\ vocab = VocabUnable1 => log[i].toks = <<Unable>>
                  /\ vocab = VocabUnable2
                       => log[i].toks = << <<"u", "n">>,
                                           <<"#", "#", "a", "b", "l", "e">> >>

C6_Witness ==
    \E i \in DOMAIN log :
        /\ log[i].word = Unable /\ vocab = VocabUnable1
        /\ log[i].rejects = 0
        /\ log[i].toks = <<Unable>>

(* C9: tokenize raises for no text: every step of the call has a next step
   until it returns, and the list returned holds unk_token for every word
   that is oversized or could not be matched. *)
C9_NeverRaises ==
    /\ pc # "done" => ENABLED TokNext
    /\ pc = "done" =>
         /\ Len(log) = Len(whitespace_tokenize(text))
         /\ output_tokens = Flatten([i \in DOMAIN log |-> log[i].toks])
         /\ \A i \in DOMAIN log :
                /\ log[i].word = whitespace_tokenize(text)[i]
                /\ (Len(log[i].word) > max_input_chars_per_word \/ log[i].kind = "bad")
                       => log[i].toks = <<unk_token>>

C9_Witness ==
    /\ pc = "done"
    /\ \E i, j \in DOMAIN log : log[i].kind = "oversize" /\ log[j].kind = "bad"
    /\ output_tokens = <<unk_token, unk_token>>

(* C7 as stated: over any sequence of calls the body runs exactly once for each
   key called, and every call returns the one object made for its key. *)
C7_OncePerKey ==
    /\ \A k \in DOMAIN body_runs : body_runs[k] = 1
    /\ \A k \in DOMAIN returned : Cardinality(returned[k]) = 1

(* C7 amended: the body runs exactly once for each key whose computation
   returns, and every call with that key returns the object of that one run; a
   key whose computation raises is not cached, so each call with it runs the
   body again. *)
C7_OncePerReturningKey ==
    /\ \A k \in DOMAIN cache :
          /\ RunsOf(k) = 1
          /\ returned[k] = {cache[k].obj}
          /\ cache[k].value = Body(k)
    /\ \A k \in DOMAIN body_runs :
          k \notin DOMAIN cache
              => (ReturnedOf(k) = {} /\ (k.num_bins = 0 \/ k.low = k.high))
    /\ ret.status = "ok" =>
          /\ ret.key \in DOMAIN cache
          /\ ret.obj = cache[ret.key].obj
          /\ ret.value = cache[ret.key].value
    /\ ret.status = "ZeroDivisionError" =>
          /\ ret.key \notin DOMAIN cache
          /\ RunsOf(ret.key) >= 1

C7_Witness ==
    /\ n_calls = 2
    /\ ret.status = "ok"
    /\ ret.hit
    /\ ret.key.num_bins = 4
    /\ body_runs[ret.key] = 1

(* C8 as stated: an error exactly when num_bins <= 0 or low >= high. *)
C8_InvalidArgument ==
    ret.status # "none" =>
        ((ret.key.num_bins <= 0 \/ ret.key.low >= ret.key.high) <=> ret.status # "ok")

(* C8 amended: an error (ZeroDivisionError) exactly when num_bins = 0, or
   num_bins > 0 and low = high; every other call returns: empty sequences for
   num_bins < 0, nan probabilities for low > high. *)
C8_RaisesOnZeroDivision ==
    ret.status # "none" =>
        /\ ret.status \in {"ok", "ZeroDivisionError"}
        /\ ret.status = "ZeroDivisionError"
              <=> \/ ret.key.num_bins = 0
                  \/ (ret.key.num_bins > 0 /\ ret.key.low = ret.key.high)
        /\ (ret.status = "ok" /\ ret.key.num_bins < 0)
              => (ret.value.supports = <<>> /\ ret.value.probs = <<>>)
        /\ (ret.status = "ok" /\ ret.key.num_bins > 0 /\ ret.key.low > ret.key.high)
              => \A i \in DOMAIN ret.value.probs : ret.value.probs[i].nan
        /\ (ret.status = "ok" /\ ret.key.num_bins > 0 /\ ret.key.low < ret.key.high)
              => \A i \in DOMAIN ret.value.probs : ~ret.value.probs[i].nan

C8_Witness ==
    /\ ret.status = "ZeroDivisionError"
    /\ ret.key.num_bins > 0
    /\ ret.key.low = ret.key.high

(* C10: for num_bins > 0 and low < high the call returns num_bins centers and
   num_bins probabilities in the same bin order; with radius =
   0.5*(high-low)/num_bins the i-th center (from 0) is low + radius + i*2*radius,
   the midpoint of the i-th of num_bins equal bins of [low, high]; for
   (0.5, 4, 0, 1) the centers are 0.125, 0.375, 0.625, 0.875. *)
C10_BinCenters ==
    (ret.status = "ok" /\ ret.key.num_bins > 0 /\ ret.key.low < ret.key.high) =>
        LET k == ret.key
            n == k.num_bins
            w == Rat(k.high - k.low, n)
            r == Rat(k.high - k.low, 2 * n)
            left(i) == RAdd(RInt(k.low), RMul(RInt(i), w))
        IN  /\ Len(ret.value.supports) = n
            /\ Len(ret.value.probs) = n
            /\ \A i \in 0..(n - 1) :
                  /\ ret.value.supports[i + 1]
                       = RAdd(RAdd(RInt(k.low), r), RMul(RInt(i), RMul(RInt(2), r)))
                  /\ ret.value.supports[i + 1]
                       = RMul(Half, RAdd(left(i), left(i + 1)))
                  /\ ret.value.probs[i + 1].lo = RDiv(RSub(left(i), k.mean), r)
                  /\ ret.value.probs[i + 1].hi = RDiv(RSub(left(i + 1), k.mean), r)
            /\ k = ScenarioKey
                  => ret.value.supports = <<Rat(1, 8), Rat(3, 8), Rat(5, 8), Rat(7, 8)>>

C10_Witness ==
    /\ ret.status = "ok"
    /\ ret.key = ScenarioKey
    /\ ret.value.supports = <<Rat(1, 8), Rat(3, 8), Rat(5, 8), Rat(7, 8)>>
    /\ Len(ret.value.probs) = 4

(* C11: when no draw exceeds the corruption probability (as with a probability
   of 1.0, which no draw in [0,1) exceeds), every vocabulary hit is rejected and
   every word, a one-character word of the vocabulary included, yields exactly
   [unk_token]. *)
C11_AllRejectedIsUnk ==
    \A i \in DOMAIN log :
        log[i].high = 0
            => /\ log[i].toks = <<unk_token>>
               /\ log[i].rejects = log[i].hits

C11_Witness ==
    \E i \in DOMAIN log :
        /\ Len(log[i].word) = 1
        /\ log[i].word \in vocab
        /\ log[i].random = 1
        /\ log[i].high = 0
        /\ log[i].toks = <<unk_token>>

AllIdle == \A t \in Threads : thr[t].pc = "idle"

(* C12 as stated: under every interleaving the calls for a key return one value
   and, when the threads are through, the cache holds one complete entry for
   every key that was requested. *)
C12_EntryPerRequestedKey ==
    AllIdle =>
        \A r \in results :
            /\ r.status = "ok"
            /\ r.key \in DOMAIN cache
            /\ cache[r.key].value = r.value

(* C12 amended: under every interleaving the calls for a key whose computation
   returns all return the same value, and once one of them has returned the
   cache holds one complete entry for that key; a race computes the value more
   than once at worst.  A key whose computation raises gets no entry. *)
C12_EntryPerReturningKey ==
    /\ \A k \in DOMAIN cache :
          /\ k.num_bins # 0 /\ k.low # k.high
          /\ cache[k].value = Body(k)
          /\ RunsOf(k) >= 1
    /\ \A r \in results :
          IF r.status = "ok"
          THEN /\ r.key \in DOMAIN cache
               /\ r.value = cache[r.key].value
               /\ \A q \in results : (q.key = r.key) => (q.status = "ok" /\ q.value = r.value)
          ELSE /\ r.key \notin DOMAIN cache
               /\ (r.key.num_bins = 0 \/ r.key.low = r.key.high)
    /\ \A k \in DOMAIN body_runs : body_runs[k] <= n_calls

C12_Witness ==
    /\ AllIdle
    /\ RunsOf(ScenarioKey) = 2
    /\ ScenarioKey \in DOMAIN cache
    /\ \E r, q \in results :
          /\ r.key = ScenarioKey /\ q.key = ScenarioKey
          /\ r.status = "ok" /\ q.status = "ok"
          /\ r.obj # q.obj
          /\ r.value = q.value

(* C13: a run of tokenize given the same text, vocabulary and sequence of draw
   values as an earlier run returns the same tokens and consumes the same
   number of draws, in the same order. *)
C13_SeededRunsAgree ==
    /\ (seeded = "replay" /\ last_draw # NoDraw)
          => (n_random <= Len(stream) /\ last_draw = stream[n_random])
    /\ (seeded = "replay" /\ pc = "done")
          => /\ output_tokens = first.output_tokens
             /\ n_random = first.n_random
             /\ n_random = Len(stream)

C13_Witness ==
    /\ seeded = "replay"
    /\ pc = "done"
    /\ Len(stream) >= 3
    /\ \E i, j \in DOMAIN stream : stream[i] <= CorruptPct /\ stream[j] > CorruptPct
    /\ Len(output_tokens) >= 2
    /\ output_tokens = first.output_tokens

(* the words tokenize has gone through, in order *)
WordsSeen == [i \in DOMAIN log |-> log[i].word]

NonSpace(t) == SelectSeq(t, LAMBDA c : c # Space)

(* the number of maximal runs of non-space characters of t *)
RunStarts(t) ==
    Cardinality({i \in 1..Len(t) : t[i] # Space /\ (i = 1 \/ t[i - 1] = Space)})

(* C14: tokenize trims the text and splits it on whitespace into words (the
   maximal runs of non-space characters, none empty, in order); for an empty
   or whitespace-only text it returns no token, evaluates no candidate and
   consumes no draw. *)
C14_WhitespaceSplit ==
    pc = "done"
        => /\ Len(WordsSeen) = RunStarts(text)
           /\ \A i \in DOMAIN WordsSeen :
                  WordsSeen[i] # <<>> /\ Space \notin Range(WordsSeen[i])
           /\ Flatten(WordsSeen) = NonSpace(text)
           /\ NonSpace(text) = <<>>
                  => /\ output_tokens = <<>>
                     /\ n_evals = 0
                     /\ n_random = 0

C14_Witness ==
    /\ pc = "done"
    /\ Len(text) >= 2
    /\ NonSpace(text) = <<>>
    /\ vocab # {}
    /\ output_tokens = <<>>

ValidKey(k) == k.num_bins > 0 /\ k.low < k.high

RECURSIVE RSum(_)
RSum(ps) == IF ps = <<>> THEN RInt(0) ELSE RAdd(Head(ps), RSum(Tail(ps)))

(* C15: for num_bins > 0 and low < high every bin probability is a number that
   is not negative and the probabilities sum to a value in [0, 1]; the bins
   [c - radius, c + radius] tile [low, high]: the first starts at low, each
   ends where the next starts, the last ends at high. *)
C15_ProbabilitiesWithinUnit ==
    (ret.status = "ok" /\ ValidKey(ret.key)) =>
        LET k == ret.key
            n == k.num_bins
            r == Rat(k.high - k.low, 2 * n)
            c == ret.value.supports
            ps == [i \in 1..n |-> ret.value.probs[i].p]
        IN  /\ RSub(c[1], r) = RInt(k.low)
            /\ RAdd(c[n], r) = RInt(k.high)
            /\ \A i \in 1..(n - 1) : RAdd(c[i], r) = RSub(c[i + 1], r)
            /\ \A i \in 1..n :
                  /\ ~ret.value.probs[i].nan
                  /\ ps[i] # NaN
                  /\ RLeq(RInt(0), ps[i])
            /\ RLeq(RInt(0), RSum(ps))
            /\ RLeq(RSum(ps), RInt(1))

C15_Witness ==
    /\ ret.status = "ok"
    /\ ValidKey(ret.key)
    /\ ret.key.num_bins >= 3
    /\ ret.key.low # 0
    /\ \E i \in 1..ret.key.num_bins : RLess(RInt(0), ret.value.probs[i].p)
    /\ RSum([i \in 1..ret.key.num_bins |-> ret.value.probs[i].p]) = RInt(1)

MeanOutside(k) == RLess(k.mean, RInt(k.low)) \/ RLess(RInt(k.high), k.mean)

(* C16: a call with num_bins > 0, low < high and mean outside [low, high] does
   not fail: it returns num_bins centers and num_bins probabilities, none of
   them nan, computed with the truncation bounds (low - mean) / radius and
   (high - mean) / radius. *)
C16_MeanOutsideReturns ==
    (ret.status # "none" /\ ValidKey(ret.key) /\ MeanOutside(ret.key)) =>
        LET k == ret.key
            n == k.num_bins
            r == Rat(k.high - k.low, 2 * n)
        IN  /\ ret.status = "ok"
            /\ Len(ret.value.supports) = n
            /\ Len(ret.value.probs) = n
            /\ \A i \in 1..n :
                  /\ ~ret.value.probs[i].nan
                  /\ ret.value.probs[i].a = RDiv(RSub(RInt(k.low), k.mean), r)
                  /\ ret.value.probs[i].b = RDiv(RSub(RInt(k.high), k.mean), r)

C16_Witness ==
    /\ ret.status = "ok"
    /\ ~ret.hit
    /\ ValidKey(ret.key)
    /\ RLess(RInt(ret.key.high), ret.key.mean)
    /\ ret.key.num_bins >= 2
    /\ Len(ret.value.probs) = ret.key.num_bins

(* C17: generate_train_kfolds_indices is seeded: two calls on inputs of the
   same length return the same list of (training index, validation index)
   pairs. *)
C17_SeededKFolds ==
    (kf_first.status = "ok" /\ kf_last.status = "ok" /\ kf_first.n = kf_last.n)
        => kf_last.folds = kf_first.folds

(* C18: a call of get_balanced_id_text_label_from_csv with sample = N that
   returns, returns exactly N rows, half of them (0.5 * N) positive rows
   (toxic == 1) and half of them negative rows (toxic == 0). *)
C18_ExactlyNRows ==
    (bal.status = "ok" /\ bal.sampled) =>
        LET drawn(label) ==
                Cardinality({i \in DOMAIN bal.rows : bal.csv[bal.rows[i]] = label})
        IN  /\ Len(bal.rows) = bal.sample
            /\ 2 * drawn(1) = bal.sample
            /\ 2 * drawn(0) = bal.sample

(* C19: every optimizer step applies gradients accumulated from exactly
   ACCUM_FOR batches, all of them batches of the epoch the step is made in: no
   gradient is carried from one epoch into a step of a later epoch. *)
C19_StepsOfAccumFor ==
    \A i \in DOMAIN steps :
        /\ Len(steps[i].grads) = ACCUM_FOR[variant]
        /\ \A j \in DOMAIN steps[i].grads : steps[i].grads[j].epoch = steps[i].epoch

(* the set every epoch of a run of n epochs is to train on *)
TupleOfEpoch(e, n) == IF e < n \div 2 THEN "train" ELSE "val"

EpochsOn(tuple) == Cardinality({i \in DOMAIN sel : sel[i] = tuple})

NeverBackToTrain == \A i, j \in DOMAIN sel : (i < j /\ sel[i] = "val") => sel[j] = "val"

(* C20 as stated: epochs 0 .. NUM_EPOCHS//2 - 1 train on the train set and all
   later epochs on the validation set, 0.5 * NUM_EPOCHS epochs each, for every
   NUM_EPOCHS and with either test. *)
C20_EqualSplit ==
    tr_pc = "done" =>
        /\ sel = [i \in 1..NUM_EPOCHS |-> TupleOfEpoch(i - 1, NUM_EPOCHS)]
        /\ NeverBackToTrain
        /\ 2 * EpochsOn("train") = NUM_EPOCHS
        /\ 2 * EpochsOn("val") = NUM_EPOCHS

(* C20: with either test, epochs 0 .. NUM_EPOCHS//2 - 1 train on the train set
   and all later epochs on the validation set, never going back to the train
   set: NUM_EPOCHS // 2 epochs on the train set and NUM_EPOCHS - NUM_EPOCHS // 2
   on the validation set, which is 0.5 * NUM_EPOCHS each exactly when
   NUM_EPOCHS is even. *)
C20_SplitAtHalf ==
    /\ \A i \in DOMAIN sel : sel[i] = TupleOfEpoch(i - 1, NUM_EPOCHS)
    /\ NeverBackToTrain
    /\ tr_pc = "done" =>
          /\ Len(sel) = NUM_EPOCHS
          /\ EpochsOn("train") = NUM_EPOCHS \div 2
          /\ EpochsOn("val") = NUM_EPOCHS - NUM_EPOCHS \div 2
          /\ (EpochsOn("train") = EpochsOn("val")) <=> (NUM_EPOCHS % 2 = 0)

C20_Witness ==
    /\ tr_pc = "done"
    /\ variant = "dual"
    /\ NUM_EPOCHS = 5
    /\ sel = <<"train", "train", "val", "val", "val">>

(* the characters of a token that come from the word: all of the first token,
   and a later token without its continuation marker *)
TokenBody(toks, j) == IF j = 1 THEN toks[j] ELSE SubSeq(toks[j], 3, Len(toks[j]))

(* C21: whatever the draws, a word within max_input_chars_per_word yields
   either exactly [unk_token] or a complete segmentation of the word: every
   token is in the vocabulary, the first token is a prefix of the word with
   no marker added, every later token is the marker followed by characters
   of the word, and the token bodies concatenated in order are the word. *)
C21_UnkOrSegmentation ==
    \A i \in DOMAIN log :
        Scanned(i) =>
            LET toks == log[i].toks
                w == log[i].word
            IN  \/ toks = <<unk_token>>
                \/ /\ toks # <<>>
                   /\ \A j \in DOMAIN toks : toks[j] \in vocab
                   /\ toks[1] = SubSeq(w, 1, Len(toks[1]))
                   /\ \A j \in 2..Len(toks) :
                          /\ Len(toks[j]) > Len(Marker)
                          /\ SubSeq(toks[j], 1, Len(Marker)) = Marker
                   /\ Flatten([j \in DOMAIN toks |-> TokenBody(toks, j)]) = w

C21_Witness ==
    \E i \in DOMAIN log :
        /\ Scanned(i)
        /\ log[i].rejects >= 1
        /\ Len(log[i].toks) >= 2
        /\ log[i].toks # <<unk_token>>
        /\ Flatten([j \in DOMAIN log[i].toks |-> TokenBody(log[i].toks, j)]) = log[i].word

Scanning == pc \in {"while", "inner", "after"}

(* n * (n + 1) / 2 *)
Triangle(n) == (n * (n + 1)) \div 2

(* C22: the scan of every word terminates under every sequence of draws: a
   candidate that is not accepted moves end back by one and never below
   start, the inner loop is left without a token only at end = start, an
   accepted token moves start to end, beyond where it was, a word of n
   characters has at most n*(n+1)/2 candidates evaluated, and every scan that
   has begun comes to its end. *)
C22_ScanTerminates ==
    /\ [][(pc = "inner" /\ pc' = "inner") => (end' = end - 1 /\ end' >= start)]_vars
    /\ [][(pc = "inner" /\ pc' = "after" /\ cur_substr' = {}) => end = start]_vars
    /\ [][(pc = "after" /\ pc' = "while") => (start' = end /\ start' > start)]_vars
    /\ [](Scanning => n_evals - mark.evals <= Triangle(Len(chars)))
    /\ [](\A i \in DOMAIN log : log[i].evals <= Triangle(Len(log[i].word)))
    /\ [](Scanning => <>(pc = "for"))
    /\ <>(pc = "done")

C22_Witness ==
    \E i \in DOMAIN log :
        /\ Len(log[i].word) = 3
        /\ log[i].evals = Triangle(3)
        /\ log[i].rejects >= 1
        /\ Len(log[i].toks) = 3

(* C23: for every dataset of n >= 1 rows and every BATCH_SIZE >= 1,
   predict_evaluate goes through the rows in order in the batches
   [start, min(start + BATCH_SIZE, n)), each row once, and the concatenated
   predictions are exactly n values of which the i-th belongs to the i-th row,
   also when the last batch holds a single row. *)
C23_OnePredictionPerRow ==
    /\ Concatenate(val_preds)
         = [i \in 1..Len(Concatenate(val_preds)) |-> i - 1]
    /\ (pe_pc = "done" /\ data_len >= 1)
          => /\ pe_ret.status = "ok"
             /\ pe_ret.preds = [i \in 1..data_len |-> i - 1]

====
